---- MODULE Spec2Model ----
(***************************************************************************)
(* A model of the treasure route optimizer (js/route-optimizer.js and its  *)
(* earlier centroid-greedy revision).                                       *)
(*                                                                         *)
(* Arrays are objects of a heap: `heap` is a sequence of arrays, an array   *)
(* reference is an index into it, and every array the code creates         *)
(* ([...a], [], slice) is a new entry.  An operator that models a function  *)
(* that creates or changes arrays takes the heap and returns               *)
(* [heap |-> the heap after the call, ret |-> the returned reference].      *)
(*                                                                         *)
(* Numbers: waypoints lie at the places of PointList, any two of which are  *)
(* at an integer distance, so that Math.sqrt and the sums of distances are  *)
(* exact.  NaN and Infinity are encoded as negative integers, which no      *)
(* coordinate or distance of the model is.                                  *)
(* JavaScript indexes from 0, the model's sequences from 1.                 *)
(***************************************************************************)
EXTENDS Integers, Sequences, FiniteSets, Bags, TLC

\* ------------------------------------------------------------------ bounds
\* optimize: the longest list
MaxLen == 4
\* sortWithinMap alone
MaxPool == 4
NumPoolPoints == 4
\* improve2Opt alone
MaxRoute == 5
NumRoutePoints == 4
\* improve2Opt step by step: the longest route and the most passes asked for
MaxStepRoute == 4
MaxPasses == 1
\* sortMaps alone: the most waypoints on one map
MaxCount == 3
\* analyzeRoute alone
MaxAnalyzed == 5
MaxCentroidMaps == 4
MaxAuthCalls == 2

\* ------------------------------------------------------------------ numbers
NaN == 0 - 1
Infinity == 0 - 2

\* a < b on JavaScript numbers
Lt(a, b) ==
    IF a = NaN \/ b = NaN THEN FALSE
    ELSE IF a = Infinity THEN FALSE
    ELSE IF b = Infinity THEN TRUE
    ELSE a < b

\* a + b on JavaScript numbers (no -Infinity arises in the model)
Plus(a, b) ==
    IF a = NaN \/ b = NaN THEN NaN
    ELSE IF a = Infinity \/ b = Infinity THEN Infinity
    ELSE a + b

\* Math.sqrt on the perfect squares the model produces
Sqrt(n) == CHOOSE r \in 0..n : r * r = n

\* ------------------------------------------------------------------ optional values
\* null is the empty sequence, a present value v is <<v>>
Null == <<>>
Some(v) == <<v>>

\* ------------------------------------------------------------------ locals
\* const x = v; ... F(x): the initializer v is evaluated once, then the rest of
\* the block runs with x bound to its value
Bind(v, F(_)) == CHOOSE y \in {F(x) : x \in {v}} : TRUE

\* ------------------------------------------------------------------ sequences
RemoveAt(s, i) == SubSeq(s, 1, i - 1) \o SubSeq(s, i + 1, Len(s))

Reverse(s) == [i \in 1..Len(s) |-> s[Len(s) + 1 - i]]

RECURSIVE SortedSeqOf(_)
SortedSeqOf(S) ==
    IF S = {} THEN <<>>
    ELSE LET m == CHOOSE x \in S : \A y \in S : x <= y
         IN <<m>> \o SortedSeqOf(S \ {m})

\* Array.prototype.sort with comparator cmp (a function of <<a, b>>): stable
RECURSIVE InsertSorted(_, _, _)
InsertSorted(sorted, e, cmp) ==
    IF sorted = <<>> THEN <<e>>
    ELSE IF cmp[<<sorted[1], e>>] > 0 THEN <<e>> \o sorted
    ELSE <<sorted[1]>> \o InsertSorted(Tail(sorted), e, cmp)

RECURSIVE StableSort(_, _)
StableSort(s, cmp) ==
    IF s = <<>> THEN <<>>
    ELSE InsertSorted(StableSort(SubSeq(s, 1, Len(s) - 1), cmp), s[Len(s)], cmp)

\* ------------------------------------------------------------------ heap
\* a new array object holding items; its reference is Len(h) + 1
Alloc(h, items) == [heap |-> Append(h, items), ret |-> Len(h) + 1]

\* [...a]
Spread(h, a) == Alloc(h, h[a])

\* ------------------------------------------------------------------ region catalog
MAP_REGION_GROUPS ==
    << [region |-> "gyr_abania",  mapIds |-> <<367, 368, 369>>],
       [region |-> "othard",      mapIds |-> <<371, 354, 372>>],
       [region |-> "ishgard",     mapIds |-> <<211, 212, 213, 214, 215>>],
       [region |-> "norvrandt",   mapIds |-> <<491, 492, 493, 494, 495, 496>>],
       [region |-> "ew_north",    mapIds |-> <<695, 696>>],
       [region |-> "ew_endgame",  mapIds |-> <<698, 699, 700>>],
       [region |-> "dt_tural",    mapIds |-> <<857, 858, 859>>],
       [region |-> "dt_solution", mapIds |-> <<860, 861, 862>>] >>

\* getMapRegion's null
NoRegion == ""

RECURSIVE getMapRegionFrom(_, _)
getMapRegionFrom(k, mapId) ==
    IF k > Len(MAP_REGION_GROUPS) THEN NoRegion
    ELSE IF \E j \in 1..Len(MAP_REGION_GROUPS[k].mapIds) :
                MAP_REGION_GROUPS[k].mapIds[j] = mapId
         THEN MAP_REGION_GROUPS[k].region
         ELSE getMapRegionFrom(k + 1, mapId)

getMapRegion(mapId) == getMapRegionFrom(1, mapId)

\* ------------------------------------------------------------------ distance
calcDistance(p1, p2) ==
    IF p1.x = NaN \/ p2.x = NaN \/ p1.y = NaN \/ p2.y = NaN THEN NaN
    ELSE Sqrt((p1.x - p2.x) * (p1.x - p2.x) + (p1.y - p2.y) * (p1.y - p2.y))

\* ------------------------------------------------------------------ sortWithinMap
\* dist <= minDist for dist < minDist: the last of the nearest wins
RECURSIVE scanNearestLast(_, _, _, _, _)
scanNearestLast(from, arr, idx, minDist, nearestIdx) ==
    IF idx > Len(arr) THEN nearestIdx
    ELSE LET dist == calcDistance(from, arr[idx].coords)
         IN IF ~Lt(minDist, dist)
            THEN scanNearestLast(from, arr, idx + 1, dist, idx)
            ELSE scanNearestLast(from, arr, idx + 1, minDist, nearestIdx)

\* the forEach of lines 95-101 and 114-120: the index of the first element of
\* arr at the least distance from `from` (index 0 when no distance is below
\* Infinity)
RECURSIVE scanNearest(_, _, _, _, _)
scanNearest(from, arr, idx, minDist, nearestIdx) ==
    IF idx > Len(arr) THEN nearestIdx
    ELSE LET dist == calcDistance(from, arr[idx].coords)
         IN IF Lt(dist, minDist)
            THEN scanNearest(from, arr, idx + 1, dist, idx)
            ELSE scanNearest(from, arr, idx + 1, minDist, nearestIdx)

nearestIndex(from, arr) == scanNearest(from, arr, 1, Infinity, 1)

\* const remaining = treasures: the loop splices the argument itself
remainingAliased(h, treasures) == [heap |-> h, ret |-> treasures]

\* const remaining = [...treasures]
remainingOf(h, treasures) == Spread(h, treasures)

\* the while loop of lines 105-122 on the arrays remaining and result
RECURSIVE nearestNeighbor(_, _, _, _)
nearestNeighbor(h, remaining, result, currentIdx) ==
    LET current == h[remaining][currentIdx]
    IN Bind([h EXCEPT ![remaining] = RemoveAt(@, currentIdx),
                        ![result] = Append(@, current)], LAMBDA h1 :
       IF Len(h1[remaining]) = 0 THEN h1
       ELSE nearestNeighbor(h1, remaining, result,
                            nearestIndex(current.coords, h1[remaining])))

sortWithinMap(h, treasures, startCoords) ==
    IF Len(h[treasures]) <= 1 THEN Spread(h, treasures)
    ELSE Bind(Alloc(h, <<>>), LAMBDA res :
         Bind(remainingOf(res.heap, treasures), LAMBDA rem :
         LET currentIdx == IF startCoords # Null
                           THEN nearestIndex(startCoords[1], rem.heap[rem.ret])
                           ELSE 1
         IN [heap |-> nearestNeighbor(rem.heap, rem.ret, res.ret, currentIdx),
             ret |-> res.ret]))

\* ------------------------------------------------------------------ groupByMap
\* the reduce of lines 56-61; groups maps a mapId to its bucket's reference
RECURSIVE groupReduce(_, _, _, _)
groupReduce(h, groups, list, i) ==
    IF i > Len(list) THEN [heap |-> h, groups |-> groups]
    ELSE LET treasure == list[i]
             mapId == treasure.mapId
         IN IF mapId \in DOMAIN groups
            THEN groupReduce([h EXCEPT ![groups[mapId]] = Append(@, treasure)],
                             groups, list, i + 1)
            ELSE LET a == Alloc(h, <<>>)
                 IN groupReduce([a.heap EXCEPT ![a.ret] = Append(@, treasure)],
                                (mapId :> a.ret) @@ groups, list, i + 1)

groupByMap(h, treasures) == groupReduce(h, <<>>, h[treasures], 1)

\* the buckets' contents, by mapId
Buckets(h, groups) == [m \in DOMAIN groups |-> h[groups[m]]]

\* ------------------------------------------------------------------ sortMaps (region-aware)
\* a number used as a condition: 0 and null are falsy
TruthyNumber(n) == n # Null /\ n[1] # 0 /\ n[1] # NaN

\* the keys of regionGroups in insertion order (lines 134-142)
RECURSIVE regionKeys(_, _, _)
regionKeys(mapIds, i, keys) ==
    IF i > Len(mapIds) THEN keys
    ELSE LET region == getMapRegion(mapIds[i])
         IN IF region # NoRegion /\ ~(\E j \in 1..Len(keys) : keys[j] = region)
            THEN regionKeys(mapIds, i + 1, Append(keys, region))
            ELSE regionKeys(mapIds, i + 1, keys)

RECURSIVE sumLengths(_, _)
sumLengths(mapGroups, ids) ==
    IF ids = <<>> THEN 0
    ELSE Len(mapGroups[ids[1]]) + sumLengths(mapGroups, Tail(ids))

RECURSIVE concatRegions(_, _)
concatRegions(regionGroups, sortedRegions) ==
    IF sortedRegions = <<>> THEN <<>>
    ELSE regionGroups[sortedRegions[1]] \o concatRegions(regionGroups, Tail(sortedRegions))

SeqRange(s) == {s[i] : i \in 1..Len(s)}

\* counts[a] - counts[b] for counts[b] - counts[a]: ascending
regionCmpAscending(a, b, startRegion, regionTreasureCounts) ==
    IF startRegion # NoRegion /\ a = startRegion THEN 0 - 1
    ELSE IF startRegion # NoRegion /\ b = startRegion THEN 1
    ELSE regionTreasureCounts[a] - regionTreasureCounts[b]

\* the comparator of lines 153-159
regionCmp(a, b, startRegion, regionTreasureCounts) ==
    IF startRegion # NoRegion /\ a = startRegion THEN 0 - 1
    ELSE IF startRegion # NoRegion /\ b = startRegion THEN 1
    ELSE regionTreasureCounts[b] - regionTreasureCounts[a]

\* the comparator of lines 162-168 (anchored: startMapId && region === startRegion)
\* and of lines 171-177 (anchored: startMapId && !startRegion)
mapCmp(a, b, anchored, startMapId, mapGroups) ==
    IF anchored /\ a = startMapId[1] THEN 0 - 1
    ELSE IF anchored /\ b = startMapId[1] THEN 1
    ELSE Len(mapGroups[b]) - Len(mapGroups[a])

sortMaps(mapGroups, startMapId) ==
    LET mapIds == SortedSeqOf(DOMAIN mapGroups)
    IN IF Len(mapIds) <= 1 THEN mapIds
       ELSE
       LET InRegion(r) == LET Test(id) == getMapRegion(id) = r
                          IN SelectSeq(mapIds, Test)
           keys == regionKeys(mapIds, 1, <<>>)
           regionGroups == [r \in SeqRange(keys) |-> InRegion(r)]
           ungroupedMaps == InRegion(NoRegion)
           startRegion == IF TruthyNumber(startMapId)
                          THEN getMapRegion(startMapId[1]) ELSE NoRegion
           regionTreasureCounts ==
               [r \in SeqRange(keys) |-> sumLengths(mapGroups, regionGroups[r])]
           sortedRegions ==
               StableSort(keys,
                   [p \in SeqRange(keys) \X SeqRange(keys) |->
                       regionCmp(p[1], p[2], startRegion, regionTreasureCounts)])
           ids == SeqRange(mapIds)
           sortedGroups ==
               [r \in SeqRange(keys) |->
                   StableSort(regionGroups[r],
                       [p \in ids \X ids |->
                           mapCmp(p[1], p[2],
                                  TruthyNumber(startMapId) /\ r = startRegion,
                                  startMapId, mapGroups)])]
           sortedUngrouped ==
               StableSort(ungroupedMaps,
                   [p \in ids \X ids |->
                       mapCmp(p[1], p[2],
                              TruthyNumber(startMapId) /\ startRegion = NoRegion,
                              startMapId, mapGroups)])
       IN IF /\ TruthyNumber(startMapId)
             /\ startRegion = NoRegion
             /\ startMapId[1] \in SeqRange(sortedUngrouped)
          THEN sortedUngrouped \o concatRegions(sortedGroups, sortedRegions)
          ELSE concatRegions(sortedGroups, sortedRegions) \o sortedUngrouped

\* ------------------------------------------------------------------ improve2Opt
\* route[j] with JavaScript's index
At(route, j) == route[j + 1]

\* route.slice(k + 2) for route.slice(k + 1): the element after the segment is lost
reverseSegmentDropping(route, i, k) ==
    SubSeq(route, 1, i + 1) \o Reverse(SubSeq(route, i + 2, k + 1))
        \o SubSeq(route, k + 3, Len(route))

\* the reversal of lines 221-226: route[i+1 .. k] reversed
reverseSegment(route, i, k) ==
    SubSeq(route, 1, i + 1) \o Reverse(SubSeq(route, i + 2, k + 1))
        \o SubSeq(route, k + 2, Len(route))

\* the pair scored on the open path: no edge from the last waypoint to the first
improvesOpen(route, i, k) ==
    LET n == Len(route)
        d1 == calcDistance(At(route, i).coords, At(route, i + 1).coords)
        d2 == IF k + 1 < n
              THEN calcDistance(At(route, k).coords, At(route, k + 1).coords) ELSE 0
        d3 == calcDistance(At(route, i).coords, At(route, k).coords)
        d4 == IF k + 1 < n
              THEN calcDistance(At(route, i + 1).coords, At(route, k + 1).coords) ELSE 0
    IN Lt(Plus(d3, d4), Plus(d1, d2))

\* the condition of line 219
improves(route, i, k) ==
    LET n  == Len(route)
        d1 == calcDistance(At(route, i).coords, At(route, i + 1).coords)
        d2 == calcDistance(At(route, k).coords, At(route, (k + 1) % n).coords)
        d3 == calcDistance(At(route, i).coords, At(route, k).coords)
        d4 == calcDistance(At(route, i + 1).coords, At(route, (k + 1) % n).coords)
    IN Bind(<<d1, d2, d3, d4>>, LAMBDA d : Lt(Plus(d[3], d[4]), Plus(d[1], d[2])))

\* the two for loops of lines 211-230, from (i, k) on
RECURSIVE twoOptScan(_, _, _, _)
twoOptScan(route, i, k, improved) ==
    IF ~(i < Len(route) - 2) THEN [route |-> route, improved |-> improved]
    ELSE IF ~(k < Len(route)) THEN twoOptScan(route, i + 1, i + 3, improved)
    ELSE IF improves(route, i, k)
         THEN twoOptScan(reverseSegment(route, i, k), i, k + 1, TRUE)
         ELSE twoOptScan(route, i, k + 1, improved)

\* the while loop of lines 207-231
RECURSIVE twoOptPasses(_, _, _, _)
twoOptPasses(route, improved, iteration, maxIterations) ==
    IF improved /\ iteration < maxIterations
    THEN LET pass == twoOptScan(route, 0, 2, FALSE)
         IN twoOptPasses(pass.route, pass.improved, iteration + 1, maxIterations)
    ELSE route

DefaultMaxIterations == 50

improve2Opt(h, treasures) ==
    IF Len(h[treasures]) <= 3 THEN Spread(h, treasures)
    ELSE Alloc(h, twoOptPasses(h[treasures], TRUE, 0, DefaultMaxIterations))

\* ------------------------------------------------------------------ calcTotalDistance
RECURSIVE totalFrom(_, _, _)
totalFrom(list, i, total) ==
    IF ~(i < Len(list) - 1) THEN total
    ELSE totalFrom(list, i + 1,
                   Plus(total, calcDistance(At(list, i).coords, At(list, i + 1).coords)))

calcTotalDistance(list) ==
    IF Len(list) <= 1 THEN 0 ELSE totalFrom(list, 0, 0)

\* ------------------------------------------------------------------ optimize
\* lastCoords never updated: every map is anchored at the start waypoint
RECURSIVE visitMapsStale(_, _, _, _, _, _)
visitMapsStale(h, groups, sortedMapIds, k, result, lastCoords) ==
    IF k > Len(sortedMapIds) THEN h
    ELSE LET s == sortWithinMap(h, groups[sortedMapIds[k]], lastCoords)
             h1 == [s.heap EXCEPT ![result] = @ \o s.heap[s.ret]]
         IN visitMapsStale(h1, groups, sortedMapIds, k + 1, result, lastCoords)

\* the for loop of lines 270-277 from the k-th map on
RECURSIVE visitMaps(_, _, _, _, _, _)
visitMaps(h, groups, sortedMapIds, k, result, lastCoords) ==
    IF k > Len(sortedMapIds) THEN h
    ELSE Bind(sortWithinMap(h, groups[sortedMapIds[k]], lastCoords), LAMBDA s :
         Bind(s.heap[s.ret], LAMBDA sorted :
         Bind([s.heap EXCEPT ![result] = @ \o sorted], LAMBDA h1 :
            visitMaps(h1, groups, sortedMapIds, k + 1, result,
                      IF Len(sorted) > 0
                      THEN Some(sorted[Len(sorted)].coords) ELSE lastCoords))))

\* the grouping skipped: one nearest-neighbour pass over the whole list
groupedRouteUngrouped(h, treasures, startTreasure) ==
    sortWithinMap(h, treasures,
                  IF startTreasure # Null THEN Some(startTreasure[1].coords) ELSE Null)

\* lines 263-277
groupedRoute(h, treasures, startTreasure) ==
    Bind(groupByMap(h, treasures), LAMBDA g :
    LET startMapId == IF startTreasure # Null THEN Some(startTreasure[1].mapId) ELSE Null
        lastCoords == IF startTreasure # Null THEN Some(startTreasure[1].coords) ELSE Null
    IN Bind(sortMaps(Buckets(g.heap, g.groups), startMapId), LAMBDA sortedMapIds :
       Bind(Alloc(g.heap, <<>>), LAMBDA res :
       [heap |-> visitMaps(res.heap, g.groups, sortedMapIds, 1, res.ret, lastCoords),
        ret |-> res.ret])))

optimize(h, treasures, options) ==
    IF treasures = 0 THEN Alloc(h, <<>>)
    ELSE IF Len(h[treasures]) <= 1 THEN Spread(h, treasures)
    ELSE Bind(IF options.useMapGrouping
                  THEN groupedRoute(h, treasures, options.startTreasure)
                  ELSE sortWithinMap(h, treasures,
                                     IF options.startTreasure # Null
                                     THEN Some(options.startTreasure[1].coords)
                                     ELSE Null), LAMBDA r :
         IF options.use2Opt THEN improve2Opt(r.heap, r.ret) ELSE r)

\* ------------------------------------------------------------------ analyzeRoute
\* new Set(treasures.map(t => t.mapId)): the distinct values in insertion order
RECURSIVE setOf(_, _, _)
setOf(values, i, set) ==
    IF i > Len(values) THEN set
    ELSE IF \E j \in 1..Len(set) : set[j] = values[i]
         THEN setOf(values, i + 1, set)
         ELSE setOf(values, i + 1, Append(set, values[i]))

\* the for loop of lines 301-305
RECURSIVE countJumps(_, _, _)
countJumps(list, i, mapJumps) ==
    IF ~(i < Len(list)) THEN mapJumps
    ELSE countJumps(list, i + 1,
                    IF At(list, i).mapId # At(list, i - 1).mapId
                    THEN mapJumps + 1 ELSE mapJumps)

\* the loop started at i = 2: the first pair is never looked at
analyzeRouteFromSecond(list) ==
    IF list = Null \/ Len(list[1]) = 0
    THEN [totalDistance |-> 0, mapCount |-> 0, mapJumps |-> 0]
    ELSE LET mapIds == setOf([i \in 1..Len(list[1]) |-> list[1][i].mapId], 1, <<>>)
         IN [totalDistance |-> calcTotalDistance(list[1]),
             mapCount |-> Len(mapIds),
             mapJumps |-> countJumps(list[1], 2, 0)]

\* list: Null for null, else <<the route>>
analyzeRoute(list) ==
    IF list = Null \/ Len(list[1]) = 0
    THEN [totalDistance |-> 0, mapCount |-> 0, mapJumps |-> 0]
    ELSE LET mapIds == setOf([i \in 1..Len(list[1]) |-> list[1][i].mapId], 1, <<>>)
         IN [totalDistance |-> calcTotalDistance(list[1]),
             mapCount |-> Len(mapIds),
             mapJumps |-> countJumps(list[1], 1, 0)]

\* ------------------------------------------------------------------ centroid-greedy revision
\* calcCenter: the mean, kept exact as the fractions x / n and y / n
calcCenter(list) ==
    IF Len(list) = 0 THEN [x |-> 20, y |-> 20, n |-> 1]
    ELSE LET RECURSIVE sum(_, _)
             sum(i, acc) ==
                 IF i > Len(list) THEN acc
                 ELSE sum(i + 1, [x |-> acc.x + list[i].coords.x,
                                  y |-> acc.y + list[i].coords.y])
             total == sum(1, [x |-> 0, y |-> 0])
         IN [x |-> total.x, y |-> total.y, n |-> Len(list)]

\* calcDistance on two centres, kept exact as the fraction num / den of its
\* square (the order of two distances is the order of their squares)
calcCenterDistance(c1, c2) ==
    LET dx == c1.x * c2.n - c2.x * c1.n
        dy == c1.y * c2.n - c2.y * c1.n
    IN [num |-> dx * dx + dy * dy, den |-> (c1.n * c2.n) * (c1.n * c2.n)]

\* dist < minDist on these fractions; minDist = Null stands for Infinity
LtFraction(dist, minDist) ==
    minDist = Null \/ dist.num * minDist[1].den < minDist[1].num * dist.den

\* the reduce of part_000 lines 102-104
RECURSIVE mostTreasures(_, _, _, _)
mostTreasures(mapGroups, mapIds, i, maxId) ==
    IF i > Len(mapIds) THEN maxId
    ELSE mostTreasures(mapGroups, mapIds, i + 1,
                       IF Len(mapGroups[mapIds[i]]) > Len(mapGroups[maxId])
                       THEN mapIds[i] ELSE maxId)

\* the for loop of part_000 lines 117-124 over the Set remaining (a sequence in
\* insertion order); nearestMapId = Null is null
RECURSIVE scanNearestMap(_, _, _, _, _, _)
scanNearestMap(mapGroups, currentCenter, remaining, i, minDist, nearestMapId) ==
    IF i > Len(remaining) THEN nearestMapId
    ELSE LET dist == calcCenterDistance(currentCenter, calcCenter(mapGroups[remaining[i]]))
         IN IF LtFraction(dist, minDist)
            THEN scanNearestMap(mapGroups, currentCenter, remaining, i + 1,
                                Some(dist), Some(remaining[i]))
            ELSE scanNearestMap(mapGroups, currentCenter, remaining, i + 1,
                                minDist, nearestMapId)

\* every next map is the nearest to the first map, not to the one placed last
RECURSIVE visitNearestToStart(_, _, _, _)
visitNearestToStart(mapGroups, remaining, result, currentMapId) ==
    LET result1 == Append(result, currentMapId)
        Keep(id) == id # currentMapId
        remaining1 == SelectSeq(remaining, Keep)
    IN IF Len(remaining1) = 0 THEN result1
       ELSE visitNearestToStart(mapGroups, remaining1, result1,
                scanNearestMap(mapGroups, calcCenter(mapGroups[result1[1]]),
                               remaining1, 1, Null, Null)[1])

\* the while loop of part_000 lines 106-127
RECURSIVE visitNearestMaps(_, _, _, _)
visitNearestMaps(mapGroups, remaining, result, currentMapId) ==
    LET result1 == Append(result, currentMapId)
        Keep(id) == id # currentMapId
        remaining1 == SelectSeq(remaining, Keep)
    IN IF Len(remaining1) = 0 THEN result1
       ELSE visitNearestMaps(mapGroups, remaining1, result1,
                scanNearestMap(mapGroups, calcCenter(mapGroups[currentMapId]),
                               remaining1, 1, Null, Null)[1])

sortMapsCentroid(mapGroups) ==
    LET mapIds == SortedSeqOf(DOMAIN mapGroups)
    IN IF Len(mapIds) <= 1 THEN mapIds
       ELSE visitNearestMaps(mapGroups, mapIds, <<>>,
                             mostTreasures(mapGroups, mapIds, 1, mapIds[1]))

\* part_000 lines 207-222
groupedRouteCentroid(h, treasures) ==
    Bind(groupByMap(h, treasures), LAMBDA g :
    Bind(sortMapsCentroid(Buckets(g.heap, g.groups)), LAMBDA sortedMapIds :
    Bind(Alloc(g.heap, <<>>), LAMBDA res :
       [heap |-> visitMaps(res.heap, g.groups, sortedMapIds, 1, res.ret, Null),
        ret |-> res.ret])))

optimizeCentroid(h, treasures, options) ==
    IF treasures = 0 THEN Alloc(h, <<>>)
    ELSE IF Len(h[treasures]) <= 1 THEN Spread(h, treasures)
    ELSE Bind(IF options.useMapGrouping
                  THEN groupedRouteCentroid(h, treasures)
                  ELSE sortWithinMap(h, treasures, Null), LAMBDA r :
         IF options.use2Opt THEN improve2Opt(r.heap, r.ret) ELSE r)

\* ------------------------------------------------------------------ state
VARIABLES
    input,        \* the caller's list as it was when the call was made (Null: null)
    heap,         \* the array objects
    treasures,    \* the reference passed as the first argument (0: null)
    options,      \* optimize's options
    startCoords,  \* sortWithinMap's second argument
    mapGroups,    \* sortMaps' first argument
    startMapId,   \* sortMaps' second argument
    sortedMapIds, \* what sortMaps returned
    result,       \* the reference returned (0: none)
    analysis,     \* what analyzeRoute returned
    pc,           \* "call" before the call, the name of the function after it
    locals,       \* the locals of an improve2Opt call run step by step (Null: none)
    reversals,    \* history: the reversals that call has made so far
    FirebaseSDK,  \* window.FirebaseSDK is set
    \* SyncService
    membersUnsubscribe,    \* Null, or the reference the closure calls sdk.off on
    treasuresUnsubscribe,
    connectionUnsubscribe,
    metaUnsubscribe,
    isConnected,
    valueListeners,        \* the SDK's side: the references with an onValue listener
    partyCode,             \* the argument of the last startSync call
    sdkCalls,              \* history: the SDK calls made by the last SyncService call
    \* AuthService
    currentUser,
    authStateCallbacks,
    isInitialized,
    authListeners,         \* the SDK's side: the listeners of sdk.onAuthStateChanged
    sdkUser,               \* the SDK's side: the signed-in user
    authChange,            \* history: the number of the latest auth-state change
    authCalls,             \* the initialize and ensureSignedIn calls made so far
    invoked                \* history: the calls of each callback, per auth-state change

\* what the optimizer's one-step calls leave alone
twoOptVars == <<locals, reversals>>
syncVars == <<membersUnsubscribe, treasuresUnsubscribe, connectionUnsubscribe,
              metaUnsubscribe, isConnected, valueListeners, partyCode, sdkCalls>>
authVars == <<currentUser, authStateCallbacks, isInitialized, authListeners, sdkUser,
              authChange, authCalls, invoked>>
partyVars == <<FirebaseSDK, syncVars, authVars>>
restVars == <<twoOptVars, partyVars>>

vars == <<input, heap, treasures, options, startCoords, mapGroups, startMapId,
          sortedMapIds, result, analysis, pc, restVars>>

\* no improve2Opt call is being stepped through
TwoOptIdle == locals = Null /\ reversals = 0

\* sync-service.js lines 7-13: the module's state after it is loaded
SyncIdle ==
    /\ membersUnsubscribe = Null
    /\ treasuresUnsubscribe = Null
    /\ connectionUnsubscribe = Null
    /\ metaUnsubscribe = Null
    /\ isConnected = FALSE
    /\ valueListeners = <<>>
    /\ partyCode = Null
    /\ sdkCalls = <<>>

\* auth-service.js lines 6-8
AuthIdle ==
    /\ currentUser = Null
    /\ authStateCallbacks = <<>>
    /\ isInitialized = FALSE
    /\ authListeners = <<>>
    /\ sdkUser = Null
    /\ authChange = 0
    /\ authCalls = <<>>
    /\ invoked = <<>>

PartyIdle == FirebaseSDK = FALSE /\ SyncIdle /\ AuthIdle
RestInit == TwoOptIdle /\ PartyIdle

NoOptions == [useMapGrouping |-> TRUE, use2Opt |-> FALSE, startTreasure |-> Null]
NoAnalysis == [totalDistance |-> 0, mapCount |-> 0, mapJumps |-> 0]

\* ------------------------------------------------------------------ inputs
\* places at integer distances from one another: three on a line, the middle
\* one 5 from its neighbours; the two apexes 12 above and below the middle one
\* (5, 12, 13); two more on the line, 9 from the middle one (9, 12, 15)
PointList ==
    << [x |-> 9, y |-> 12], [x |-> 4, y |-> 12], [x |-> 14, y |-> 12],
       [x |-> 9, y |-> 24], [x |-> 9, y |-> 0],
       [x |-> 18, y |-> 12], [x |-> 0, y |-> 12] >>

FirstPoints(n) == {PointList[i] : i \in 1..n}

\* optimize's lists lie on two places of the line and the apex above the first
Points == {PointList[1], PointList[2], PointList[4]}

Waypoints(id, maps, points) ==
    {[id |-> id, mapId |-> m, coords |-> p] : m \in maps, p \in points}

\* the lists of at most n waypoints: the k-th element is a new object (id k) or
\* the list's first object once more (a repeated element)
RECURSIVE Lists(_, _, _)
Lists(n, maps, points) ==
    IF n = 0 THEN {<<>>}
    ELSE LET shorter == Lists(n - 1, maps, points)
             full == {l \in shorter : Len(l) = n - 1}
         IN shorter \cup
            {Append(l, l[1]) : l \in {f \in full : Len(f) > 0}} \cup
            {Append(l, w) : l \in full, w \in Waypoints(n, maps, points)}

\* ------------------------------------------------------------------ optimize
OptimizeMaps == {367, 5}

\* a start waypoint is an object of its own (id 0): none, one on the region map
\* at the first place, one on the map of no region at the apex
StartTreasures ==
    {Null,
     Some([id |-> 0, mapId |-> 367, coords |-> PointList[1]]),
     Some([id |-> 0, mapId |-> 5, coords |-> PointList[4]])}

Init ==
    /\ input \in {Null} \cup {Some(l) : l \in Lists(MaxLen, OptimizeMaps, Points)}
    /\ heap = IF input = Null THEN <<>> ELSE <<input[1]>>
    /\ treasures = IF input = Null THEN 0 ELSE 1
    /\ options \in [useMapGrouping : BOOLEAN, use2Opt : BOOLEAN,
                    startTreasure : StartTreasures]
    /\ startCoords = Null
    /\ mapGroups = <<>>
    /\ startMapId = Null
    /\ sortedMapIds = <<>>
    /\ result = 0
    /\ analysis = NoAnalysis
    /\ pc = "call"
    /\ RestInit

\* what line 265 computes (<<>> when the call does not get there)
sortMapsOfCall(h, t, opts) ==
    IF t = 0 \/ ~opts.useMapGrouping THEN <<>>
    ELSE IF Len(h[t]) <= 1 THEN <<>>
    ELSE LET g == groupByMap(h, t)
         IN sortMaps(Buckets(g.heap, g.groups),
                     IF opts.startTreasure # Null
                     THEN Some(opts.startTreasure[1].mapId) ELSE Null)

Optimize ==
    /\ pc = "call"
    /\ \E r \in {optimize(heap, treasures, options)} :
          /\ heap' = r.heap
          /\ result' = r.ret
    /\ sortedMapIds' = sortMapsOfCall(heap, treasures, options)
    /\ pc' = "optimize"
    /\ UNCHANGED <<input, treasures, options, startCoords, mapGroups, startMapId,
                   analysis>>
    /\ UNCHANGED restVars

OptimizeCentroid ==
    /\ pc = "call"
    /\ \E r \in {optimizeCentroid(heap, treasures, options)} :
          /\ heap' = r.heap
          /\ result' = r.ret
    /\ pc' = "optimizeCentroid"
    /\ UNCHANGED <<input, treasures, options, startCoords, mapGroups, startMapId,
                   sortedMapIds, analysis>>
    /\ UNCHANGED restVars

Next == Optimize \/ OptimizeCentroid

Spec == Init /\ [][Next]_vars

\* ------------------------------------------------------------------ optimize on malformed records
\* a coords.x that is no number (undefined, a word): arithmetic on it gives NaN
MalformedPoints == Points \cup {[x |-> NaN, y |-> 0]}

Malformed(w) == w.coords.x = NaN

InitMalformed ==
    /\ input \in {Some(l) : l \in {m \in Lists(MaxLen, {367}, MalformedPoints) :
                                      \E i \in 1..Len(m) : Malformed(m[i])}}
    /\ heap = <<input[1]>>
    /\ treasures = 1
    /\ options \in [useMapGrouping : BOOLEAN, use2Opt : BOOLEAN,
                    startTreasure : StartTreasures]
    /\ startCoords = Null
    /\ mapGroups = <<>>
    /\ startMapId = Null
    /\ sortedMapIds = <<>>
    /\ result = 0
    /\ analysis = NoAnalysis
    /\ pc = "call"
    /\ RestInit

SpecMalformed == InitMalformed /\ [][Optimize]_vars

\* ------------------------------------------------------------------ sortWithinMap alone
PoolPoints == FirstPoints(NumPoolPoints)

InitSortWithinMap ==
    /\ input \in {Some(l) : l \in Lists(MaxPool, {367}, PoolPoints)}
    /\ heap = <<input[1]>>
    /\ treasures = 1
    /\ options = NoOptions
    /\ startCoords \in {Null} \cup {Some(p) : p \in PoolPoints}
    /\ mapGroups = <<>>
    /\ startMapId = Null
    /\ sortedMapIds = <<>>
    /\ result = 0
    /\ analysis = NoAnalysis
    /\ pc = "call"
    /\ RestInit

SortWithinMap ==
    /\ pc = "call"
    /\ LET r == sortWithinMap(heap, treasures, startCoords)
       IN /\ heap' = r.heap
          /\ result' = r.ret
    /\ pc' = "sortWithinMap"
    /\ UNCHANGED <<input, treasures, options, startCoords, mapGroups, startMapId,
                   sortedMapIds, analysis>>
    /\ UNCHANGED restVars

SpecSortWithinMap == InitSortWithinMap /\ [][SortWithinMap]_vars

\* ------------------------------------------------------------------ improve2Opt alone
RoutePoints == FirstPoints(NumRoutePoints)

InitImprove2Opt ==
    /\ input \in {Some(l) : l \in Lists(MaxRoute, {367}, RoutePoints)}
    /\ heap = <<input[1]>>
    /\ treasures = 1
    /\ options = NoOptions
    /\ startCoords = Null
    /\ mapGroups = <<>>
    /\ startMapId = Null
    /\ sortedMapIds = <<>>
    /\ result = 0
    /\ analysis = NoAnalysis
    /\ pc = "call"
    /\ RestInit

Improve2Opt ==
    /\ pc = "call"
    /\ LET r == improve2Opt(heap, treasures)
       IN /\ heap' = r.heap
          /\ result' = r.ret
    /\ pc' = "improve2Opt"
    /\ UNCHANGED <<input, treasures, options, startCoords, mapGroups, startMapId,
                   sortedMapIds, analysis>>
    /\ UNCHANGED restVars

SpecImprove2Opt == InitImprove2Opt /\ [][Improve2Opt]_vars

\* ------------------------------------------------------------------ improve2Opt, step by step
\* lines 203-205: the locals when the while loop is first reached
enterLoop(list, maxIterations) ==
    [route |-> list, improved |-> TRUE, iteration |-> 0, i |-> 0, k |-> 0,
     maxIterations |-> maxIterations]

\* a reversal starts the scan of the pair's row again (k = i + 2)
bodyStepRestart(l) ==
    IF improves(l.route, l.i, l.k)
    THEN [l EXCEPT !.route = reverseSegment(l.route, l.i, l.k), !.improved = TRUE,
                   !.k = l.i + 2]
    ELSE [l EXCEPT !.k = @ + 1]

\* lines 213-228 and the k++ of line 212: one pair (i, k)
bodyStep(l) ==
    IF improves(l.route, l.i, l.k)
    THEN [l EXCEPT !.route = reverseSegment(l.route, l.i, l.k), !.improved = TRUE,
                   !.k = @ + 1]
    ELSE [l EXCEPT !.k = @ + 1]

\* the routes improve2Opt is stepped through on: waypoints that are all different
\* objects, on the three places of the line and the apex above the middle one;
\* the maxIterations it is given: no pass, a few, or the default
StepPoints == {PointList[1], PointList[2], PointList[3], PointList[4]}
StepLists == {l \in Lists(MaxStepRoute, {367}, StepPoints) :
                 \A a \in 1..Len(l) : l[a].id = a}
StepMaxIterations == {0, MaxPasses, DefaultMaxIterations}

optimizerIdle ==
    /\ options = NoOptions
    /\ startCoords = Null
    /\ mapGroups = <<>>
    /\ startMapId = Null
    /\ sortedMapIds = <<>>
    /\ analysis = NoAnalysis

optimizerVars == <<options, startCoords, mapGroups, startMapId, sortedMapIds, analysis>>

\* before the call
InitTwoOpt ==
    /\ input = Null
    /\ heap = <<>>
    /\ treasures = 0
    /\ result = 0
    /\ optimizerIdle
    /\ pc = "idle"
    /\ TwoOptIdle
    /\ PartyIdle

\* improve2Opt(list, maxIterations) is called; lines 201-205
TwoOptCall ==
    /\ pc = "idle"
    /\ \E list \in StepLists, maxIterations \in StepMaxIterations :
          /\ input' = Some(list)
          /\ treasures' = 1
          /\ IF Len(list) <= 3
             THEN /\ heap' = <<list, list>>
                  /\ result' = 2
                  /\ pc' = "return"
                  /\ locals' = [maxIterations |-> maxIterations]
             ELSE /\ heap' = <<list>>
                  /\ result' = 0
                  /\ locals' = enterLoop(list, maxIterations)
                  /\ pc' = "while"
    /\ UNCHANGED <<optimizerVars, reversals, partyVars>>

\* lines 207-209 and 233: the loop test, then the start of a pass or the return
TwoOptWhile ==
    /\ pc = "while"
    /\ IF locals.improved /\ locals.iteration < locals.maxIterations
       THEN /\ locals' = [locals EXCEPT !.improved = FALSE, !.iteration = @ + 1, !.i = 0]
            /\ pc' = "for_i"
            /\ UNCHANGED <<heap, result>>
       ELSE /\ heap' = Append(heap, locals.route)
            /\ result' = Len(heap) + 1
            /\ pc' = "return"
            /\ UNCHANGED locals
    /\ UNCHANGED <<input, treasures, optimizerVars, reversals, partyVars>>

\* line 211: the outer loop's test
TwoOptForI ==
    /\ pc = "for_i"
    /\ IF locals.i < Len(locals.route) - 2
       THEN /\ locals' = [locals EXCEPT !.k = locals.i + 2]
            /\ pc' = "for_k"
       ELSE /\ pc' = "while"
            /\ UNCHANGED locals
    /\ UNCHANGED <<input, heap, treasures, result, optimizerVars, reversals, partyVars>>

\* line 212: the inner loop's test, then its body or the outer loop's i++
TwoOptForK ==
    /\ pc = "for_k"
    /\ IF locals.k < Len(locals.route)
       THEN /\ locals' = bodyStep(locals)
            /\ reversals' = IF improves(locals.route, locals.i, locals.k)
                            THEN reversals + 1 ELSE reversals
            /\ pc' = "for_k"
       ELSE /\ locals' = [locals EXCEPT !.i = @ + 1]
            /\ pc' = "for_i"
            /\ UNCHANGED reversals
    /\ UNCHANGED <<input, heap, treasures, result, optimizerVars, partyVars>>

\* the steps of a running call
TwoOptRun == TwoOptWhile \/ TwoOptForI \/ TwoOptForK

NextTwoOpt == TwoOptCall \/ TwoOptRun

\* a call, once made, keeps running (synchronous code: nothing suspends it)
SpecTwoOpt == InitTwoOpt /\ [][NextTwoOpt]_vars /\ WF_vars(TwoOptRun)

\* ------------------------------------------------------------------ analyzeRoute alone
InitAnalyzeRoute ==
    /\ input \in {Null} \cup
                 {Some(l) : l \in Lists(MaxAnalyzed, {367, 371, 5}, {[x |-> 0, y |-> 0]})}
    /\ heap = IF input = Null THEN <<>> ELSE <<input[1]>>
    /\ treasures = IF input = Null THEN 0 ELSE 1
    /\ options = NoOptions
    /\ startCoords = Null
    /\ mapGroups = <<>>
    /\ startMapId = Null
    /\ sortedMapIds = <<>>
    /\ result = 0
    /\ analysis = NoAnalysis
    /\ pc = "call"
    /\ RestInit

AnalyzeRoute ==
    /\ pc = "call"
    /\ analysis' = analyzeRoute(IF treasures = 0 THEN Null ELSE Some(heap[treasures]))
    /\ pc' = "analyzeRoute"
    /\ UNCHANGED <<input, heap, treasures, options, startCoords, mapGroups,
                   startMapId, sortedMapIds, result>>
    /\ UNCHANGED restVars

SpecAnalyzeRoute == InitAnalyzeRoute /\ [][AnalyzeRoute]_vars

\* ------------------------------------------------------------------ sortMaps alone
\* two maps of gyr_abania, one of othard, two of no region (one of them map 0)
SortedMaps == {0, 5, 354, 367, 368}

\* n waypoints of map m along the line
BucketOn(m, n) == [j \in 1..n |-> [id |-> m * 10 + j, mapId |-> m,
                                   coords |-> [x |-> j - 1, y |-> 0]]]

RECURSIVE Flatten(_, _)
Flatten(groups, mapIds) ==
    IF mapIds = <<>> THEN <<>>
    ELSE groups[mapIds[1]] \o Flatten(groups, Tail(mapIds))

\* the bucket sets over SortedMaps, each bucket of 1..MaxCount waypoints; the
\* caller's list holds the buckets one after the other, and the start waypoint,
\* if any, is an object of its own on the start map
InitSortMaps ==
    /\ \E counts \in [SortedMaps -> 0..MaxCount] :
          mapGroups = [m \in {k \in SortedMaps : counts[k] > 0} |-> BucketOn(m, counts[m])]
    /\ startMapId \in {Null} \cup {Some(m) : m \in SortedMaps}
    /\ input = Some(Flatten(mapGroups, SortedSeqOf(DOMAIN mapGroups)))
    /\ heap = <<input[1]>>
    /\ treasures = 1
    /\ options = [useMapGrouping |-> TRUE, use2Opt |-> FALSE,
                  startTreasure |->
                      IF startMapId = Null THEN Null
                      ELSE Some([id |-> 0, mapId |-> startMapId[1],
                                 coords |-> [x |-> 0, y |-> 0]])]
    /\ startCoords = Null
    /\ sortedMapIds = <<>>
    /\ result = 0
    /\ analysis = NoAnalysis
    /\ pc = "call"
    /\ RestInit

SortMaps ==
    /\ pc = "call"
    /\ sortedMapIds' = sortMaps(mapGroups, startMapId)
    /\ pc' = "sortMaps"
    /\ UNCHANGED <<input, heap, treasures, options, startCoords, mapGroups,
                   startMapId, result, analysis>>
    /\ UNCHANGED restVars

SpecSortMaps == InitSortMaps /\ [][SortMaps \/ Optimize]_vars

\* ------------------------------------------------------------------ sortMaps of part_000 alone
CentroidMapList == <<5, 367, 368, 370, 371>>
CentroidMaps == {CentroidMapList[i] : i \in 1..MaxCentroidMaps}

\* two places of the line and the apex above the middle of them
CentroidPointList == <<PointList[2], PointList[3], PointList[4]>>

\* a bucket is one or two waypoints, each on one of the places; sortMaps looks
\* at a bucket's length and centre only, so the places are taken in one order
CentroidBuckets ==
    {<<a>> : a \in 1..3} \cup {p \in (1..3) \X (1..3) : p[1] <= p[2]}

BucketAt(m, places) == [j \in 1..Len(places) |-> [id |-> m * 10 + j, mapId |-> m,
                                                  coords |-> CentroidPointList[places[j]]]]

\* the bucket sets groupByMap can produce over CentroidMaps: no bucket is empty
InitSortMapsCentroid ==
    /\ \E places \in [CentroidMaps -> CentroidBuckets \cup {<<>>}] :
          mapGroups = [m \in {k \in CentroidMaps : places[k] # <<>>} |->
                          BucketAt(m, places[m])]
    /\ startMapId = Null
    /\ input = Some(Flatten(mapGroups, SortedSeqOf(DOMAIN mapGroups)))
    /\ heap = <<input[1]>>
    /\ treasures = 1
    /\ options = NoOptions
    /\ startCoords = Null
    /\ sortedMapIds = <<>>
    /\ result = 0
    /\ analysis = NoAnalysis
    /\ pc = "call"
    /\ RestInit

SortMapsCentroid ==
    /\ pc = "call"
    /\ sortedMapIds' = sortMapsCentroid(mapGroups)
    /\ pc' = "sortMapsCentroid"
    /\ UNCHANGED <<input, heap, treasures, options, startCoords, mapGroups,
                   startMapId, result, analysis>>
    /\ UNCHANGED restVars

SpecSortMapsCentroid == InitSortMapsCentroid /\ [][SortMapsCentroid]_vars

\* ------------------------------------------------------------------ SyncService
\* a party code is a string; undefined is Null, a string c is Some(c)
PartyCodes == {"A", "B", "C"}
SyncArguments == {Null, Some("")} \cup {Some(c) : c \in PartyCodes}

\* !partyCode is false
TruthyString(code) == code # Null /\ code[1] # ""

\* getRef: a reference is its path
getRef(path) == path
membersPath(code) == <<"parties", code, "members">>
treasuresPath(code) == <<"parties", code, "treasures">>
metaPath(code) == <<"parties", code, "meta">>
connectedPath == <<".info/connected">>

\* the part of the state startSync and stopSync work on
syncState ==
    [membersUnsubscribe |-> membersUnsubscribe,
     treasuresUnsubscribe |-> treasuresUnsubscribe,
     connectionUnsubscribe |-> connectionUnsubscribe,
     metaUnsubscribe |-> metaUnsubscribe,
     valueListeners |-> valueListeners,
     sdkCalls |-> <<>>]

\* sdk.onValue(ref, ...): one more listener on ref
sdkOnValue(s, ref) ==
    [s EXCEPT !.valueListeners = Append(@, ref),
              !.sdkCalls = Append(@, <<"onValue", ref>>)]

\* sdk.off(ref): every listener on ref is removed
sdkOff(s, ref) ==
    LET Other(r) == r # ref
    IN [s EXCEPT !.valueListeners = SelectSeq(@, Other),
                 !.sdkCalls = Append(@, <<"off", ref>>)]

\* sync-service.js lines 116-134
stopSync(s) ==
    LET s1 == IF s.membersUnsubscribe # Null
              THEN [sdkOff(s, s.membersUnsubscribe[1]) EXCEPT !.membersUnsubscribe = Null]
              ELSE s
        s2 == IF s1.treasuresUnsubscribe # Null
              THEN [sdkOff(s1, s1.treasuresUnsubscribe[1]) EXCEPT !.treasuresUnsubscribe = Null]
              ELSE s1
        s3 == IF s2.metaUnsubscribe # Null
              THEN [sdkOff(s2, s2.metaUnsubscribe[1]) EXCEPT !.metaUnsubscribe = Null]
              ELSE s2
    IN IF s3.connectionUnsubscribe # Null
       THEN [sdkOff(s3, s3.connectionUnsubscribe[1]) EXCEPT !.connectionUnsubscribe = Null]
       ELSE s3

\* lines 50-112: the four registrations, each followed by its handle
register(s, code) ==
    LET membersRef == getRef(membersPath(code))
        treasuresRef == getRef(treasuresPath(code))
        metaRef == getRef(metaPath(code))
        connectedRef == getRef(connectedPath)
        s1 == [sdkOnValue(s, membersRef) EXCEPT !.membersUnsubscribe = Some(membersRef)]
        s2 == [sdkOnValue(s1, treasuresRef) EXCEPT !.treasuresUnsubscribe = Some(treasuresRef)]
        s3 == [sdkOnValue(s2, metaRef) EXCEPT !.metaUnsubscribe = Some(metaRef)]
    IN [sdkOnValue(s3, connectedRef) EXCEPT !.connectionUnsubscribe = Some(connectedRef)]

\* the call of line 45 left out: the listeners of the previous party stay
startSyncKeeping(s, sdk, code) ==
    IF ~sdk THEN s
    ELSE IF ~TruthyString(code) THEN s
    ELSE register(s, code[1])

\* sync-service.js lines 32-113
startSync(s, sdk, code) ==
    IF ~sdk THEN s
    ELSE IF ~TruthyString(code) THEN s
    ELSE register(stopSync(s), code[1])

\* s becomes the state
SyncBecomes(s) ==
    /\ membersUnsubscribe' = s.membersUnsubscribe
    /\ treasuresUnsubscribe' = s.treasuresUnsubscribe
    /\ connectionUnsubscribe' = s.connectionUnsubscribe
    /\ metaUnsubscribe' = s.metaUnsubscribe
    /\ valueListeners' = s.valueListeners
    /\ sdkCalls' = s.sdkCalls

optimizerUntouched == UNCHANGED <<input, heap, treasures, result, optimizerVars, twoOptVars>>

InitSync ==
    /\ input = Null
    /\ heap = <<>>
    /\ treasures = 0
    /\ result = 0
    /\ optimizerIdle
    /\ pc = "idle"
    /\ RestInit

\* firebase-config.js line 51: the SDK module has been loaded
LoadSDK ==
    /\ ~FirebaseSDK
    /\ FirebaseSDK' = TRUE
    /\ pc' = "initializeFirebase"
    /\ UNCHANGED <<syncVars, authVars>>
    /\ optimizerUntouched

StartSync ==
    /\ \E code \in SyncArguments :
          /\ partyCode' = code
          /\ \E s \in {startSync(syncState, FirebaseSDK, code)} : SyncBecomes(s)
    /\ pc' = "startSync"
    /\ UNCHANGED <<FirebaseSDK, isConnected, authVars>>
    /\ optimizerUntouched

StopSync ==
    /\ \E s \in {stopSync(syncState)} : SyncBecomes(s)
    /\ pc' = "stopSync"
    /\ UNCHANGED <<FirebaseSDK, isConnected, partyCode, authVars>>
    /\ optimizerUntouched

\* lines 104-110: the listener on .info/connected is called with a snapshot
ConnectionChange ==
    /\ \E a \in 1..Len(valueListeners) : valueListeners[a] = connectedPath
    /\ \E val \in BOOLEAN : isConnected' = val
    /\ pc' = "onValue"
    /\ UNCHANGED <<FirebaseSDK, membersUnsubscribe, treasuresUnsubscribe,
                   connectionUnsubscribe, metaUnsubscribe, valueListeners, partyCode,
                   sdkCalls, authVars>>
    /\ optimizerUntouched

NextSync == LoadSDK \/ StartSync \/ StopSync \/ ConnectionChange
SpecSync == InitSync /\ [][NextSync]_vars

\* ------------------------------------------------------------------ AuthService
\* the callbacks handed to onAuthStateChange, and the user the SDK signs in
AuthCallbacks == {"cb1", "cb2"}
AnonymousUser == Some("uid")

\* sdk.onAuthStateChanged(sdk.auth, callback): one more listener; the SDK will
\* call it with the state there is, and again at every change
sdkOnAuthStateChanged(listeners) ==
    Append(listeners, [queue |-> <<[change |-> authChange, user |-> sdkUser]>>,
                       resolved |-> FALSE])

\* auth-service.js lines 11-28 up to the return: the listeners after the call
\* and the promise returned (0: one already settled, else the listener that
\* resolves it)
initialize ==
    IF isInitialized THEN [authListeners |-> authListeners, promise |-> 0]
    ELSE IF ~FirebaseSDK THEN [authListeners |-> authListeners, promise |-> 0]
    ELSE [authListeners |-> sdkOnAuthStateChanged(authListeners),
          promise |-> Len(authListeners) + 1]

\* the SDK tells every listener of a change of the signed-in user
notifyAll(listeners, change, user) ==
    [l \in 1..Len(listeners) |->
        [listeners[l] EXCEPT !.queue = Append(@, [change |-> change, user |-> user])]]

\* authStateCallbacks.forEach(cb => cb(user)) for the change a listener reports
forEachCallback(bag, change) ==
    bag (+) SetToBag({<<authStateCallbacks[a], change>> : a \in 1..Len(authStateCallbacks)})

InitAuth ==
    /\ input = Null
    /\ heap = <<>>
    /\ treasures = 0
    /\ result = 0
    /\ optimizerIdle
    /\ pc = "idle"
    /\ TwoOptIdle
    /\ FirebaseSDK = FALSE
    /\ SyncIdle
    /\ currentUser = Null
    /\ authStateCallbacks = <<>>
    /\ isInitialized = FALSE
    /\ authListeners = <<>>
    /\ sdkUser \in {Null, AnonymousUser}
    /\ authChange = 0
    /\ authCalls = <<>>
    /\ invoked = <<>>

\* AuthService.initialize() is called
Initialize ==
    /\ Len(authCalls) < MaxAuthCalls
    /\ authListeners' = initialize.authListeners
    /\ authCalls' = Append(authCalls, [fn |-> "initialize",
                                       pc |-> IF initialize.promise = 0 THEN "done"
                                              ELSE "pending",
                                       promise |-> initialize.promise])
    /\ pc' = "initialize"
    /\ UNCHANGED <<FirebaseSDK, syncVars, currentUser, authStateCallbacks, isInitialized,
                   sdkUser, authChange, invoked>>
    /\ optimizerUntouched

\* AuthService.ensureSignedIn() is called: lines 49-52 up to the await
EnsureSignedIn ==
    /\ Len(authCalls) < MaxAuthCalls
    /\ IF currentUser # Null
       THEN /\ authCalls' = Append(authCalls, [fn |-> "ensureSignedIn", pc |-> "done",
                                               promise |-> 0])
            /\ UNCHANGED authListeners
       ELSE /\ authListeners' = initialize.authListeners
            /\ authCalls' = Append(authCalls, [fn |-> "ensureSignedIn",
                                               pc |-> "await initialize",
                                               promise |-> initialize.promise])
    /\ pc' = "ensureSignedIn"
    /\ UNCHANGED <<FirebaseSDK, syncVars, currentUser, authStateCallbacks, isInitialized,
                   sdkUser, authChange, invoked>>
    /\ optimizerUntouched

\* lines 21-26: the SDK calls a listener
AuthStateChanged ==
    /\ \E l \in 1..Len(authListeners) :
          /\ authListeners[l].queue # <<>>
          /\ currentUser' = Head(authListeners[l].queue).user
          /\ isInitialized' = TRUE
          /\ invoked' = forEachCallback(invoked, Head(authListeners[l].queue).change)
          /\ authListeners' = [authListeners EXCEPT ![l].queue = Tail(@),
                                                    ![l].resolved = TRUE]
    /\ pc' = "onAuthStateChanged"
    /\ UNCHANGED <<FirebaseSDK, syncVars, authStateCallbacks, sdkUser, authChange,
                   authCalls>>
    /\ optimizerUntouched

\* lines 54-57 and 32-38: ensureSignedIn goes on after initialize's promise
EnsureAfterInitialize ==
    /\ \E c \in 1..Len(authCalls) :
          /\ authCalls[c].pc = "await initialize"
          /\ IF authCalls[c].promise = 0 THEN TRUE
             ELSE authListeners[authCalls[c].promise].resolved
          /\ authCalls' = [authCalls EXCEPT ![c].pc =
                              IF currentUser # Null THEN "done"
                              ELSE IF ~FirebaseSDK THEN "thrown"
                              ELSE "await signInAnonymously"]
    /\ pc' = "ensureSignedIn"
    /\ UNCHANGED <<FirebaseSDK, syncVars, currentUser, authStateCallbacks, isInitialized,
                   authListeners, sdkUser, authChange, invoked>>
    /\ optimizerUntouched

\* the SDK signs the anonymous user in: a change of the auth state unless a
\* user was signed in already
SignInAnonymously ==
    /\ \E c \in 1..Len(authCalls) :
          /\ authCalls[c].pc = "await signInAnonymously"
          /\ authCalls' = [authCalls EXCEPT ![c].pc = "signed in"]
    /\ IF sdkUser = Null
       THEN /\ sdkUser' = AnonymousUser
            /\ authChange' = authChange + 1
            /\ authListeners' = notifyAll(authListeners, authChange + 1, AnonymousUser)
       ELSE UNCHANGED <<sdkUser, authChange, authListeners>>
    /\ pc' = "signInAnonymously"
    /\ UNCHANGED <<FirebaseSDK, syncVars, currentUser, authStateCallbacks, isInitialized,
                   invoked>>
    /\ optimizerUntouched

\* lines 39-40: signIn goes on after the SDK's promise
SignInReturns ==
    /\ \E c \in 1..Len(authCalls) :
          /\ authCalls[c].pc = "signed in"
          /\ authCalls' = [authCalls EXCEPT ![c].pc = "done"]
    /\ currentUser' = sdkUser
    /\ pc' = "signIn"
    /\ UNCHANGED <<FirebaseSDK, syncVars, authStateCallbacks, isInitialized, authListeners,
                   sdkUser, authChange, invoked>>
    /\ optimizerUntouched

\* lines 41-44: the SDK's promise is rejected
SignInFails ==
    /\ \E c \in 1..Len(authCalls) :
          /\ authCalls[c].pc = "await signInAnonymously"
          /\ authCalls' = [authCalls EXCEPT ![c].pc = "thrown"]
    /\ pc' = "signIn"
    /\ UNCHANGED <<FirebaseSDK, syncVars, currentUser, authStateCallbacks, isInitialized,
                   authListeners, sdkUser, authChange, invoked>>
    /\ optimizerUntouched

\* lines 71-76: a callback not registered at the moment is registered (its
\* immediate call of line 75 is not a call for an auth-state change)
OnAuthStateChange ==
    /\ \E cb \in AuthCallbacks \ SeqRange(authStateCallbacks) :
          authStateCallbacks' = Append(authStateCallbacks, cb)
    /\ pc' = "onAuthStateChange"
    /\ UNCHANGED <<FirebaseSDK, syncVars, currentUser, isInitialized, authListeners,
                   sdkUser, authChange, authCalls, invoked>>
    /\ optimizerUntouched

\* lines 78-83: the function onAuthStateChange returned is called
Unsubscribe ==
    /\ \E cb \in SeqRange(authStateCallbacks) :
          LET Other(x) == x # cb
          IN authStateCallbacks' = SelectSeq(authStateCallbacks, Other)
    /\ pc' = "unsubscribe"
    /\ UNCHANGED <<FirebaseSDK, syncVars, currentUser, isInitialized, authListeners,
                   sdkUser, authChange, authCalls, invoked>>
    /\ optimizerUntouched

NextAuth ==
    \/ LoadSDK
    \/ Initialize
    \/ EnsureSignedIn
    \/ AuthStateChanged
    \/ EnsureAfterInitialize
    \/ SignInAnonymously
    \/ SignInReturns
    \/ SignInFails
    \/ OnAuthStateChange
    \/ Unsubscribe
SpecAuth == InitAuth /\ [][NextAuth]_vars

\* ------------------------------------------------------------------ claims on optimize
Returned == pc \in {"optimize", "optimizeCentroid"}

\* the caller's list (null read as the empty list) and the returned route
InputList == IF input = Null THEN <<>> ELSE input[1]
Route == heap[result]

BagOf(s) == [w \in SeqRange(s) |-> Cardinality({i \in 1..Len(s) : s[i] = w})]

\* C1: whatever the list and the options, the route optimize returns is a
\* permutation of the list: the same length and the same multiset of waypoints.
C1_Permutation ==
    Returned => /\ Len(Route) = Len(InputList)
                /\ BagOf(Route) = BagOf(InputList)

\* a call with grouping, 2-opt and a start waypoint on a full-length list with a
\* repeated element, whose route is in another order than the list
C1_Witness ==
    /\ pc = "optimize"
    /\ options.useMapGrouping /\ options.use2Opt /\ options.startTreasure # Null
    /\ Len(InputList) = MaxLen
    /\ \E i, j \in 1..Len(InputList) : i # j /\ InputList[i] = InputList[j]
    /\ Route # InputList

Contiguous(route) ==
    LET a == analyzeRoute(Some(route)) IN a.mapJumps = a.mapCount - 1

\* C3 as stated: with useMapGrouping, whether use2Opt is off or on, the route
\* keeps each map's waypoints together: mapJumps = mapCount - 1 when it is not
\* empty.
C3_ContiguousAlways ==
    (Returned /\ options.useMapGrouping /\ Len(Route) > 0) => Contiguous(Route)

\* C3 amended: with useMapGrouping and use2Opt off, the route keeps each map's
\* waypoints together: mapJumps = mapCount - 1 when it is not empty.
C3_ContiguousWithout2Opt ==
    (Returned /\ options.useMapGrouping /\ ~options.use2Opt /\ Len(Route) > 0)
        => Contiguous(Route)

\* a grouped route without 2-opt over two maps whose waypoints alternate in the
\* list
C3_Witness ==
    /\ pc = "optimize"
    /\ options.useMapGrouping /\ ~options.use2Opt
    /\ Len(InputList) = MaxLen
    /\ \A i \in 1..(Len(InputList) - 1) : InputList[i].mapId # InputList[i + 1].mapId
    /\ analyzeRoute(Some(Route)).mapJumps = 1

\* C5: optimize leaves its argument alone: after the call the list holds the
\* same waypoints in the same order, and what is returned is another array
\* object than the list, also for an empty or one-element list.
C5_InputUntouched ==
    Returned => /\ result # 0
                /\ result # treasures
                /\ treasures # 0 => heap[treasures] = input[1]

\* a call without grouping on a full-length list, which the nearest-neighbour
\* pass reorders
C5_Witness ==
    /\ pc = "optimize"
    /\ ~options.useMapGrouping
    /\ Len(InputList) = MaxLen
    /\ Route # InputList
    /\ heap[treasures] = InputList

\* the waypoints of map m in the order of the list
BucketOf(list, m) == LET OnMap(w) == w.mapId = m IN SelectSeq(list, OnMap)

\* sortWithinMap on a list of its own
sortedWithin(list, anchor) ==
    LET r == sortWithinMap(<<list>>, 1, anchor) IN r.heap[r.ret]

RECURSIVE OffsetOf(_, _, _)
OffsetOf(list, mapIds, k) ==
    IF k <= 1 THEN 0
    ELSE OffsetOf(list, mapIds, k - 1) + Len(BucketOf(list, mapIds[k - 1]))

\* C10: with useMapGrouping and without 2-opt the route is the concatenation, in
\* sortMaps' order, of sortWithinMap on each map's bucket; the first map is
\* anchored at the start waypoint (at nothing when there is none), every later
\* map at the last waypoint placed before it, so a later map's first waypoint is
\* the one of that map nearest to the waypoint before it.
C10_Concatenation ==
    (pc = "optimize" /\ options.useMapGrouping /\ ~options.use2Opt
        /\ Len(InputList) > 1) =>
    LET off(k) == OffsetOf(InputList, sortedMapIds, k)
        bucket(k) == BucketOf(InputList, sortedMapIds[k])
        anchor(k) == IF k = 1
                     THEN IF options.startTreasure = Null THEN Null
                          ELSE Some(options.startTreasure[1].coords)
                     ELSE Some(Route[off(k)].coords)
    IN /\ SeqRange(sortedMapIds) = {w.mapId : w \in SeqRange(InputList)}
       /\ Len(Route) = off(Len(sortedMapIds) + 1)
       /\ \A k \in 1..Len(sortedMapIds) :
            /\ SubSeq(Route, off(k) + 1, off(k + 1)) = sortedWithin(bucket(k), anchor(k))
            /\ k > 1 => \A w \in SeqRange(bucket(k)) :
                   calcDistance(Route[off(k)].coords, Route[off(k) + 1].coords)
                       <= calcDistance(Route[off(k)].coords, w.coords)

\* a grouped route over two maps where the second map's bucket starts with a
\* waypoint that is not the nearest to the first map's last waypoint
C10_Witness ==
    /\ pc = "optimize" /\ options.useMapGrouping /\ ~options.use2Opt
    /\ Len(sortedMapIds) = 2
    /\ LET b == BucketOf(InputList, sortedMapIds[2])
           off == Len(BucketOf(InputList, sortedMapIds[1]))
       IN /\ Len(b) >= 2
          /\ Route[off + 1] # b[1]
          /\ calcDistance(Route[off].coords, Route[off + 1].coords)
                < calcDistance(Route[off].coords, b[1].coords)

\* ------------------------------------------------------------------ claim on improve2Opt
\* C2: for a route of more than 3 waypoints, the open-path length (the sum over
\* consecutive pairs, with no edge from the last waypoint back to the first) of
\* improve2Opt's result is at most that of the route.
C2_OpenPathNotLonger ==
    (pc = "improve2Opt" /\ Len(InputList) > 3)
        => calcTotalDistance(Route) <= calcTotalDistance(InputList)

\* ------------------------------------------------------------------ claim on malformed records
\* C4: a call whose list holds a malformed record ends in InvalidInputError and
\* returns no route, whatever the options.
C4_MalformedRejected ==
    (pc # "call" /\ \E i \in 1..Len(InputList) : Malformed(InputList[i]))
        => pc = "InvalidInputError" /\ result = 0

\* ------------------------------------------------------------------ claims on sortMaps
CountOf(m) == Len(mapGroups[m])

RECURSIVE SumCounts(_)
SumCounts(S) ==
    IF S = {} THEN 0
    ELSE LET m == CHOOSE x \in S : TRUE IN CountOf(m) + SumCounts(S \ {m})

\* the waypoints on the maps of m's region
RegionTotal(m) ==
    SumCounts({k \in DOMAIN mapGroups : getMapRegion(k) = getMapRegion(m)})

\* C6: with at least two maps and a start map that is one of them, whatever its
\* id, sortMaps' order begins with the start map, and the other maps of its
\* region, if it has one, come before any map of another region.
C6_StartMapFirst ==
    (/\ pc = "sortMaps"
     /\ Cardinality(DOMAIN mapGroups) >= 2
     /\ startMapId # Null
     /\ startMapId[1] \in DOMAIN mapGroups) =>
    /\ sortedMapIds[1] = startMapId[1]
    /\ getMapRegion(startMapId[1]) # NoRegion =>
         \A i, j \in 1..Len(sortedMapIds) :
            (i < j /\ getMapRegion(sortedMapIds[j]) = getMapRegion(startMapId[1]))
                => getMapRegion(sortedMapIds[i]) = getMapRegion(startMapId[1])

\* C7: without a start map, sortMaps' order lists every bucket key once, keeps
\* the maps of a region together, puts regions in non-increasing order of their
\* waypoint totals and a region's maps in non-increasing order of their own
\* counts, and puts every map of a region before every map of none; so, of two
\* maps of different regions, optimize visits the one with more waypoints first.
C7_RegionOrder ==
    /\ (pc = "sortMaps" /\ startMapId = Null) =>
        LET s == sortedMapIds
            R(i) == getMapRegion(s[i])
        IN /\ Len(s) = Cardinality(DOMAIN mapGroups)
           /\ SeqRange(s) = DOMAIN mapGroups
           /\ \A i, j \in 1..Len(s) : i < j =>
                /\ R(i) = NoRegion => R(j) = NoRegion
                /\ (R(i) # NoRegion /\ R(j) = R(i)) =>
                     /\ CountOf(s[i]) >= CountOf(s[j])
                     /\ \A k \in i..j : R(k) = R(i)
                /\ (R(i) # NoRegion /\ R(j) # NoRegion) =>
                     RegionTotal(s[i]) >= RegionTotal(s[j])
    /\ (pc = "optimize" /\ startMapId = Null) =>
        \A a, b \in DOMAIN mapGroups :
            (/\ DOMAIN mapGroups = {a, b}
             /\ getMapRegion(a) # NoRegion /\ getMapRegion(b) # NoRegion
             /\ getMapRegion(a) # getMapRegion(b)
             /\ CountOf(a) < CountOf(b)) =>
            \A i \in 1..CountOf(b) : Route[i].mapId = b

\* all five maps present, the two-map region with more waypoints than the
\* region met first in key order, and its second map with more than its first
C7_Witness ==
    /\ pc = "sortMaps" /\ startMapId = Null
    /\ DOMAIN mapGroups = SortedMaps
    /\ CountOf(354) = 2 /\ CountOf(367) = 1 /\ CountOf(368) = 2
    /\ CountOf(0) < CountOf(5)
    /\ sortedMapIds = <<368, 367, 354, 5, 0>>

\* ------------------------------------------------------------------ claim on analyzeRoute
\* C8: analyzeRoute's mapCount is the number of distinct mapIds of the route and
\* its mapJumps the number of adjacent pairs whose mapIds differ, which is at
\* most length - 1 for a route that is not empty; all three fields are 0 for the
\* empty route.
C8_Analysis ==
    pc = "analyzeRoute" =>
    LET l == InputList
    IN /\ analysis.mapCount = Cardinality({l[i].mapId : i \in 1..Len(l)})
       /\ analysis.mapJumps =
              Cardinality({i \in 1..(Len(l) - 1) : l[i].mapId # l[i + 1].mapId})
       /\ Len(l) > 0 => analysis.mapJumps <= Len(l) - 1
       /\ Len(l) = 0 => analysis = [totalDistance |-> 0, mapCount |-> 0, mapJumps |-> 0]

\* a full-length route that alternates between two maps
C8_Witness ==
    /\ pc = "analyzeRoute"
    /\ Len(InputList) = MaxAnalyzed
    /\ analysis.mapCount = 2
    /\ analysis.mapJumps = MaxAnalyzed - 1

\* ------------------------------------------------------------------ claim on sortWithinMap
\* p is the first index of pool at the least distance from the point `from`
FirstNearest(pool, from, p) ==
    \A q \in 1..Len(pool) :
        /\ calcDistance(from, pool[p].coords) <= calcDistance(from, pool[q].coords)
        /\ q < p => calcDistance(from, pool[p].coords) < calcDistance(from, pool[q].coords)

\* res[j], res[j + 1], ... are taken from pool by the greedy rule after prev
RECURSIVE GreedyRest(_, _, _, _)
GreedyRest(pool, prev, res, j) ==
    IF pool = <<>> THEN Len(res) = j - 1
    ELSE /\ j <= Len(res)
         /\ \E p \in 1..Len(pool) :
              /\ FirstNearest(pool, prev.coords, p)
              /\ res[j] = pool[p]
              /\ GreedyRest(RemoveAt(pool, p), pool[p], res, j + 1)

\* C9: sortWithinMap's result starts with the waypoint nearest to the anchor (the
\* list's first waypoint when there is no anchor), every later element is the
\* waypoint not yet placed that is nearest to the one placed before it, the
\* earliest of the remaining pool among equals, and the result holds each
\* waypoint of the list once.
C9_Greedy ==
    pc = "sortWithinMap" =>
    /\ Len(Route) = Len(InputList)
    /\ BagOf(Route) = BagOf(InputList)
    /\ Len(InputList) > 0 =>
         \E p \in 1..Len(InputList) :
            /\ IF startCoords = Null THEN p = 1
               ELSE FirstNearest(InputList, startCoords[1], p)
            /\ Route[1] = InputList[p]
            /\ GreedyRest(RemoveAt(InputList, p), InputList[p], Route, 2)

\* an anchored call on a full pool where two waypoints at different places are
\* equally near to the first one placed, and the earlier of them is placed next
C9_Witness ==
    /\ pc = "sortWithinMap"
    /\ startCoords # Null
    /\ Len(InputList) = MaxPool
    /\ Route[1] # InputList[1]
    /\ \E w \in SeqRange(Route) :
          /\ w.coords # Route[2].coords
          /\ w # Route[1]
          /\ calcDistance(Route[1].coords, w.coords)
                = calcDistance(Route[1].coords, Route[2].coords)

\* ------------------------------------------------------------------ claims on improve2Opt's loop
\* the call has entered its while loop
InLoop == pc \in {"while", "for_i", "for_k"} \/ (pc = "return" /\ Len(InputList) > 3)

C11_Passes ==
    InLoop => /\ locals.iteration <= locals.maxIterations
              /\ pc = "return" =>
                    ~locals.improved \/ locals.iteration = locals.maxIterations

C11_Step ==
    \* a pass starts with no reversal counted, and only after a pass that made one
    /\ (pc = "while" /\ pc' = "for_i") =>
          locals.improved /\ ~locals'.improved /\ locals'.iteration = locals.iteration + 1
    \* the pass is marked as soon as, and only when, it makes a reversal
    /\ pc = "for_k" => (locals'.improved <=> (locals.improved \/ reversals' > reversals))
    \* after a pass without a reversal the call returns
    /\ (pc = "while" /\ ~locals.improved) => pc' = "return"
    \* after a reversal the scan goes on from the next k on the reversed route
    /\ reversals' > reversals =>
          /\ pc' = "for_k"
          /\ locals'.i = locals.i /\ locals'.k = locals.k + 1
          /\ locals'.route = reverseSegment(locals.route, locals.i, locals.k)

\* C11: improve2Opt terminates; it makes at most maxIterations passes, returns
\* right after the first pass that made no reversal, and after a reversal goes
\* on scanning the reversed route from the next pair instead of starting again.
C11_Terminates ==
    /\ []C11_Passes
    /\ [][C11_Step]_vars
    /\ (pc = "while") ~> (pc = "return")

\* a call that returned after a pass that reversed something and a second that
\* reversed nothing, with passes to spare
C11_Witness ==
    /\ pc = "return"
    /\ reversals >= 1
    /\ locals.iteration = 2 /\ locals.maxIterations > 2
    /\ ~locals.improved

\* the length of the closed tour: the open path and the way back to the start
Closed(list) ==
    IF Len(list) <= 1 THEN 0
    ELSE calcTotalDistance(list) + calcDistance(list[Len(list)].coords, list[1].coords)

\* C13: every reversal improve2Opt makes shortens the closed tour, so the result's
\* closed tour is never longer than the input's and is shorter when a reversal
\* was made.
C13_ClosedTourDecreases ==
    /\ [][reversals' > reversals => Closed(locals'.route) < Closed(locals.route)]_vars
    /\ [](pc = "return" =>
            /\ Closed(Route) <= Closed(InputList)
            /\ reversals > 0 => Closed(Route) < Closed(InputList))

\* a call whose reversal shortened the closed tour and made the open path longer
C13_Witness ==
    /\ pc = "return"
    /\ reversals > 0
    /\ Closed(Route) < Closed(InputList)
    /\ calcTotalDistance(Route) > calcTotalDistance(InputList)

\* the sums of a bucket's coordinates
RECURSIVE SumOf(_, _)
SumOf(list, axis) ==
    IF list = <<>> THEN 0
    ELSE (IF axis = "x" THEN list[1].coords.x ELSE list[1].coords.y) + SumOf(Tail(list), axis)

\* the squared distance between the centroids of maps a and b, times (na * nb)^2
ScaledGap(a, b) ==
    LET na == Len(mapGroups[a])
        nb == Len(mapGroups[b])
        dx == SumOf(mapGroups[a], "x") * nb - SumOf(mapGroups[b], "x") * na
        dy == SumOf(mapGroups[a], "y") * nb - SumOf(mapGroups[b], "y") * na
    IN dx * dx + dy * dy

\* the centroid of b is at least as near to the centroid of a as that of c is
NotFarther(a, b, c) ==
    ScaledGap(a, b) * Len(mapGroups[c]) * Len(mapGroups[c])
        <= ScaledGap(a, c) * Len(mapGroups[b]) * Len(mapGroups[b])

Placed(j) == {sortedMapIds[a] : a \in 1..j}

\* C12: for two maps or more the centroid-greedy sortMaps starts with the map of
\* the most waypoints (the smallest key among them, keys being iterated in
\* ascending order), every later map is a not yet placed one whose centroid is
\* nearest to that of the map placed just before it, and every key occurs once.
C12_CentroidGreedy ==
    (pc = "sortMapsCentroid" /\ Cardinality(DOMAIN mapGroups) >= 2) =>
        /\ Len(sortedMapIds) = Cardinality(DOMAIN mapGroups)
        /\ Placed(Len(sortedMapIds)) = DOMAIN mapGroups
        /\ \A m \in DOMAIN mapGroups :
              /\ Len(mapGroups[m]) <= Len(mapGroups[sortedMapIds[1]])
              /\ m < sortedMapIds[1] => Len(mapGroups[m]) < Len(mapGroups[sortedMapIds[1]])
        /\ \A j \in 2..Len(sortedMapIds) :
              \A m \in DOMAIN mapGroups \ Placed(j - 1) :
                  NotFarther(sortedMapIds[j - 1], sortedMapIds[j], m)

\* four maps: two share the most waypoints and neither is the smallest key; the
\* third map of the order is farther from the first than the fourth is
C12_Witness ==
    /\ pc = "sortMapsCentroid"
    /\ Len(sortedMapIds) = 4
    /\ sortedMapIds[1] # CentroidMapList[1]
    /\ \E m \in DOMAIN mapGroups \ {sortedMapIds[1]} :
          Len(mapGroups[m]) = Len(mapGroups[sortedMapIds[1]])
    /\ ~NotFarther(sortedMapIds[1], sortedMapIds[3], sortedMapIds[4])

Handles == <<membersUnsubscribe, treasuresUnsubscribe, metaUnsubscribe, connectionUnsubscribe>>
HandlesOf(code) ==
    <<Some(membersPath(code)), Some(treasuresPath(code)), Some(metaPath(code)),
      Some(connectedPath)>>
ListenersOf(code) ==
    <<membersPath(code), treasuresPath(code), metaPath(code), connectedPath>>

\* the handles are all null and nothing is listened to, or they are those of one
\* party, whose four listeners are the only ones
C14_OneParty ==
    \/ Handles = <<Null, Null, Null, Null>> /\ valueListeners = <<>>
    \/ \E code \in PartyCodes :
          Handles = HandlesOf(code) /\ valueListeners = ListenersOf(code)

C14_Step ==
    /\ pc' = "stopSync" => Handles' = <<Null, Null, Null, Null>>
    \* a rejected call touches nothing
    /\ (pc' = "startSync" /\ ~(FirebaseSDK /\ TruthyString(partyCode'))) =>
          /\ UNCHANGED <<Handles, valueListeners>>
          /\ sdkCalls' = <<>>
    \* an accepted call: off for every listener there was, then the four onValue
    /\ (pc' = "startSync" /\ FirebaseSDK /\ TruthyString(partyCode')) =>
          \E n \in 0..Len(sdkCalls') :
             /\ \A a \in 1..n : sdkCalls'[a][1] = "off"
             /\ \A b \in 1..Len(valueListeners) :
                   \E a \in 1..n : sdkCalls'[a][2] = valueListeners[b]
             /\ SubSeq(sdkCalls', n + 1, Len(sdkCalls')) =
                   [a \in 1..4 |-> <<"onValue", ListenersOf(partyCode'[1])[a]>>]
             /\ Handles' = HandlesOf(partyCode'[1])

\* C14: SyncService listens to at most one party at a time: an accepted
\* startSync removes the four listeners of the previous party before it
\* registers the new ones, the four handles are all set or all null, stopSync
\* leaves them null, and a rejected startSync changes nothing.
C14_OnePartyAtATime == []C14_OneParty /\ [][C14_Step]_vars

\* startSync for one party has just replaced the subscription to another
C14_Witness ==
    /\ pc = "startSync"
    /\ partyCode = Some("B")
    /\ Len(sdkCalls) = 8
    /\ sdkCalls[1] = <<"off", membersPath("A")>>
    /\ Handles = HandlesOf("B")

\* C15: whatever the interleaving of initialize() and ensureSignedIn() calls,
\* sdk.onAuthStateChanged is registered at most once, and a registered callback
\* is called at most once for one auth-state change.
C15_RegisteredOnce ==
    /\ Len(authListeners) <= 1
    /\ \A e \in DOMAIN invoked : invoked[e] <= 1

====
